---- MODULE Spec2Model ----
(***************************************************************************)
(* A model of lru-mem's LruCache (src/src/lib.rs): a hash table whose      *)
(* buckets hold the entries of an intrusive doubly linked recency list     *)
(* (head = most recently used, tail = least recently used), a ledger       *)
(* current_size of the entries' estimated sizes and a ceiling max_size.    *)
(*                                                                         *)
(* Pointers are bucket addresses of the table (NULL = 0).  A key k stands   *)
(* for a key of k bytes, a value v for a vector of v elements of 16 bytes. *)
(***************************************************************************)
EXTENDS Integers, Sequences, FiniteSets, TLC

\* ---------------------------------------------------------------- bounds
MaxKey == 3
MaxValue == 2
\* reallocations after which insert's retry loop is taken to be endless
RetryLimit == 2

\* the width of a machine word (usize), in bits
UsizeBits == 6

Keys == 1..MaxKey
Values == 0..MaxValue

\* size_of::<Entry<(), ()>>(): one usize and two pointers on a 64 bit target
MetaSize == 24

NULL == 0
NoVal == -1

\* the ceilings handed to new() and set_max_size()
Ceilings == {0, MetaSize + 3, 2 * MetaSize + 6, 3 * MetaSize + 8}
\* the arguments handed to reserve(), try_reserve() and shrink_to()
Capacities == {0, 1, 4}

VARIABLES cache, last, uses
vars == <<cache, last, uses>>

\* ------------------------------------------------------- pure helpers
\* MemSize of a key: its bytes
key_mem_size(key) == key

\* MemSize of a value: 16 bytes for each of its elements
value_mem_size(value) == value * 16

RECURSIVE SeqSum(_)
SeqSum(s) == IF s = <<>> THEN 0 ELSE Head(s) + SeqSum(Tail(s))

RemoveKey(s, k) == SelectSeq(s, LAMBDA x : x # k)

IsPrefix(p, s) == Len(p) <= Len(s) /\ SubSeq(s, 1, Len(p)) = p

\* Entry::new that leaves the value out of the entry's size
EntryNew_without_value(key, value) ==
    [size |-> key_mem_size(key) + MetaSize,
     prev |-> NULL, next |-> NULL, key |-> key, value |-> value]

\* Entry::new
EntryNew(key, value) ==
    LET key_size == key_mem_size(key)
        value_size == value_mem_size(value)
        meta_size == MetaSize
    IN [size |-> key_size + value_size + meta_size,
        prev |-> NULL, next |-> NULL, key |-> key, value |-> value]

\* ------------------------------------------------ the table (hashbrown)
\* capacity of a table built for n elements: 4 buckets hold 3, 8 hold 7,
\* 16 hold 14
CapacityFor(n) ==
    IF n = 0 THEN 0 ELSE IF n < 4 THEN 3 ELSE IF n < 8 THEN 7 ELSE 14

\* the injected hasher: a multiplicative hash of the key
make_hash(key) == key * 5

\* the bucket a new element lands in: linear probing from its hash
ProbeSlot(table, capacity, key) ==
    LET buckets == capacity + 1
        at(i) == ((make_hash(key) + i) % buckets) + 1
        first == CHOOSE i \in 0..(buckets - 1) :
                    /\ at(i) \notin DOMAIN table
                    /\ \A j \in 0..(i - 1) : at(j) \in DOMAIN table
    IN at(first)

\* a lookup that takes the first entry whose hash falls in the same group,
\* without comparing the keys
get_mut_from_table_hash_only(c, key) ==
    IF \E s \in DOMAIN c.table :
          make_hash(c.table[s].key) % 2 = make_hash(key) % 2
    THEN CHOOSE s \in DOMAIN c.table :
            make_hash(c.table[s].key) % 2 = make_hash(key) % 2
    ELSE NULL

\* RawTable::find / get / get_mut with equivalent_key: the bucket of key
get_mut_from_table(c, key) ==
    IF \E s \in DOMAIN c.table : c.table[s].key = key
    THEN CHOOSE s \in DOMAIN c.table : c.table[s].key = key
    ELSE NULL

get_from_table(c, key) == get_mut_from_table(c, key)

len(c) == Cardinality(DOMAIN c.table)

\* RawTable::remove_entry: the table without the bucket of key
remove_from_table(c, key) ==
    LET s == get_mut_from_table(c, key)
    IN [c EXCEPT !.table = [x \in (DOMAIN c.table) \ {s} |-> c.table[x]]]

\* ------------------------------------------------------ list surgery
\* unhinge that does not tell the next entry about its new predecessor
unhinge_one_way(c, entry) ==
    LET prev == c.table[entry].prev
        next == c.table[entry].next
        t1 == IF prev # NULL
              THEN [c.table EXCEPT ![prev].next = next] ELSE c.table
    IN [c EXCEPT !.table = t1,
                 !.head = IF c.head = entry THEN next ELSE c.head,
                 !.tail = IF c.tail = entry THEN prev ELSE c.tail]

unhinge(c, entry) ==
    LET prev == c.table[entry].prev
        next == c.table[entry].next
        t1 == IF prev # NULL
              THEN [c.table EXCEPT ![prev].next = next] ELSE c.table
        t2 == IF next # NULL
              THEN [t1 EXCEPT ![next].prev = prev] ELSE t1
    IN [c EXCEPT !.table = t2,
                 !.head = IF c.head = entry THEN next ELSE c.head,
                 !.tail = IF c.tail = entry THEN prev ELSE c.tail]

\* set_head that does not link the old head back to the new one
set_head_no_back_link(c, entry) ==
    [c EXCEPT !.table = [c.table EXCEPT ![entry].next = c.head],
              !.head = entry,
              !.tail = IF c.tail = NULL THEN entry ELSE c.tail]

\* set_head that does not make the first entry of a list its tail
set_head_no_tail(c, entry) ==
    LET t1 == IF c.head # NULL
              THEN [c.table EXCEPT ![c.head].prev = entry] ELSE c.table
        t2 == [t1 EXCEPT ![entry].next = c.head]
    IN [c EXCEPT !.table = t2, !.head = entry]

set_head(c, entry) ==
    LET t1 == IF c.head # NULL
              THEN [c.table EXCEPT ![c.head].prev = entry] ELSE c.table
        t2 == [t1 EXCEPT ![entry].next = c.head]
    IN [c EXCEPT !.table = t2,
                 !.head = entry,
                 !.tail = IF c.tail = NULL THEN entry ELSE c.tail]

\* touch_ptr that leaves the entry where it is
touch_ptr_stay(c, entry) == c

\* touch_ptr that leaves the promoted entry's prev pointer as it was
touch_ptr_keep_prev(c, entry) == set_head(unhinge(c, entry), entry)

touch_ptr(c, entry) ==
    LET c1 == unhinge(c, entry)
        c2 == set_head(c1, entry)
    IN [c2 EXCEPT !.table[entry].prev = NULL]

\* remove_ptr that forgets to debit the ledger
remove_ptr_no_debit(c, entry) ==
    LET c1 == unhinge(c, entry)
        removed == c1.table[entry]
    IN remove_from_table(c1, removed.key)

\* remove_ptr that takes the entry off the list and leaves it in the table
remove_ptr_keep_in_table(c, entry) ==
    LET c1 == unhinge(c, entry)
    IN [c1 EXCEPT !.current_size = @ - c.table[entry].size]

\* the cache after the removal; the removed (key, value) is c.table[entry]
remove_ptr(c, entry) ==
    LET c1 == unhinge(c, entry)
        removed == c1.table[entry]
        c2 == remove_from_table(c1, removed.key)
    IN [c2 EXCEPT !.current_size = c1.current_size - removed.size]

remove_checked_ptr(c, entry) ==
    IF entry = NULL THEN c ELSE remove_ptr(c, entry)

remove_lru(c) == remove_checked_ptr(c, c.tail)

\* remove_mru that removes the entry at the other end of the list
remove_mru_tail(c) == remove_checked_ptr(c, c.tail)

remove_mru(c) == remove_checked_ptr(c, c.head)

\* the keys of c that c1 no longer holds
Gone(c, c1) ==
    LET keys(x) == {x.table[s].key : s \in DOMAIN x.table}
        gone == keys(c) \ keys(c1)
    IN IF gone = {} THEN <<>> ELSE <<CHOOSE k \in gone : TRUE>>

\* The eviction loop.  evicted lists the keys it removed, in order; hang
\* tells that the loop ran with an empty list and so never ends.
RECURSIVE eject_loop(_, _, _)
eject_loop(c, target, evicted) ==
    IF c.current_size > target
    THEN IF c.tail = NULL
         THEN [c |-> c, evicted |-> evicted, hang |-> TRUE]
         ELSE eject_loop(remove_lru(c), target,
                         evicted \o Gone(c, remove_lru(c)))
    ELSE [c |-> c, evicted |-> evicted, hang |-> FALSE]

\* eject_to_target that also evicts when current_size equals the target
eject_to_target_inclusive(c, target) == eject_loop(c, target - 1, <<>>)

eject_to_target(c, target) == eject_loop(c, target, <<>>)

\* ------------------------------------------------- table insertion
EmptyTable == <<>>

\* ok = FALSE is Err(entry): the table is full and must grow first
insert_into_table(c, entry) ==
    LET table_entry == get_mut_from_table(c, entry.key)
    IN IF table_entry # NULL
       THEN [ok |-> TRUE, ptr |-> table_entry,
             old |-> c.table[table_entry].value,
             c |-> [c EXCEPT !.table[table_entry] = entry]]
       ELSE IF len(c) < c.capacity
            THEN LET ptr == ProbeSlot(c.table, c.capacity, entry.key)
                 IN [ok |-> TRUE, ptr |-> ptr, old |-> NoVal,
                     c |-> [c EXCEPT !.table =
                              [x \in (DOMAIN c.table) \cup {ptr} |->
                                  IF x = ptr THEN entry ELSE c.table[x]]]]
            ELSE [ok |-> FALSE, ptr |-> NULL, old |-> NoVal, c |-> c]

\* r carries the cache and whether insert_untracked has panicked
insert_untracked(r, entry) ==
    LET ins == insert_into_table(r.c, entry)
    IN IF ins.ok
       THEN [c |-> set_head(ins.c, ins.ptr), panic |-> r.panic]
       ELSE [c |-> r.c, panic |-> TRUE]

RECURSIVE insert_all(_, _)
insert_all(r, entries) ==
    IF entries = <<>> THEN r
    ELSE insert_all(insert_untracked(r, Head(entries)), Tail(entries))

\* ------------------------------------------------------ construction
with_table_and_hasher(max_size, capacity) ==
    [table |-> EmptyTable, head |-> NULL, tail |-> NULL, current_size |-> 0,
     max_size |-> max_size, capacity |-> capacity]

new(max_size) == with_table_and_hasher(max_size, 0)

with_capacity(max_size, capacity) ==
    with_table_and_hasher(max_size, CapacityFor(capacity))

\* ------------------------------------------------------ observations
\* the keys met walking from the tail along prev, at most n steps
RECURSIVE WalkPrev(_, _, _)
WalkPrev(c, p, n) ==
    IF p = NULL \/ n = 0 \/ p \notin DOMAIN c.table THEN <<>>
    ELSE <<p>> \o WalkPrev(c, c.table[p].prev, n - 1)

\* the keys met walking from the head along next, at most n steps
RECURSIVE WalkNext(_, _, _)
WalkNext(c, p, n) ==
    IF p = NULL \/ n = 0 \/ p \notin DOMAIN c.table THEN <<>>
    ELSE <<p>> \o WalkNext(c, c.table[p].next, n - 1)

\* buckets from least to most recently used
LruToMru(c) == WalkPrev(c, c.tail, len(c) + 1)

KeysLruToMru(c) ==
    LET order == LruToMru(c)
    IN [i \in 1..Len(order) |-> c.table[order[i]].key]

\* (key, value, size) from least to most recently used
Contents(c) ==
    LET order == LruToMru(c)
    IN [i \in 1..Len(order) |->
           [key |-> c.table[order[i]].key,
            value |-> c.table[order[i]].value,
            size |-> c.table[order[i]].size]]

\* the entries read out of the table, walking from the tail along prev
Salvage(c) ==
    LET order == LruToMru(c)
    IN [i \in 1..Len(order) |-> c.table[order[i]]]

\* ------------------------------------------------------ reallocation
\* RawTable::reserve on the cleared table
ReserveCapacity(capacity, additional) ==
    IF additional > capacity
    THEN CapacityFor(IF additional > capacity + 1 THEN additional
                     ELSE capacity + 1)
    ELSE capacity

\* RawTable::shrink_to on the cleared table
ShrinkCapacity(capacity, min_size) ==
    IF min_size = 0 THEN 0
    ELSE IF CapacityFor(min_size) < capacity THEN CapacityFor(min_size)
    ELSE capacity

\* reallocate_with that re-inserts the salvaged entries starting from the
\* head's entry
reallocate_with_head_first(c, new_capacity) ==
    LET entries == Salvage(c)
        cleared == [c EXCEPT !.table = EmptyTable,
                             !.capacity = new_capacity,
                             !.head = NULL, !.tail = NULL]
    IN insert_all([c |-> cleared, panic |-> FALSE],
                  [i \in 1..Len(entries) |-> entries[Len(entries) + 1 - i]])

\* new_capacity is the capacity the reserve closure leaves the table with
reallocate_with(c, new_capacity) ==
    LET entries == Salvage(c)
        cleared == [c EXCEPT !.table = EmptyTable,
                             !.capacity = new_capacity,
                             !.head = NULL, !.tail = NULL]
    IN insert_all([c |-> cleared, panic |-> FALSE], entries)

\* reallocate that rebuilds the table with the capacity it had
reallocate_same_capacity(c, new_capacity) == reallocate_with(c, c.capacity)

reallocate(c, new_capacity) ==
    reallocate_with(c, ReserveCapacity(c.capacity, new_capacity))

\* ------------------------------------------------- results of a call
Ret(kind, key, value, entry_size, max_size) ==
    [kind |-> kind, key |-> key, value |-> value,
     entry_size |-> entry_size, max_size |-> max_size]

Unit == Ret("unit", NoVal, NoVal, NoVal, NoVal)
None == Ret("None", NoVal, NoVal, NoVal, NoVal)
SomeValue(value) == Ret("Some", NoVal, value, NoVal, NoVal)
SomePair(key, value) == Ret("Some", key, value, NoVal, NoVal)
OkNone == Ret("Ok(None)", NoVal, NoVal, NoVal, NoVal)
OkSome(value) == Ret("Ok(Some)", NoVal, value, NoVal, NoVal)
EntryTooLarge(key, value, entry_size, max_size) ==
    Ret("EntryTooLarge", key, value, entry_size, max_size)

\* what a call did: the cache it leaves, what it returned, the keys it
\* evicted, the calls of the closure, the reallocations, and whether it
\* ran into an endless loop or a panic
Done(c, ret) ==
    [c |-> c, ret |-> ret, evicted |-> <<>>, calls |-> 0, reallocs |-> 0,
     hang |-> FALSE, panic |-> FALSE]

\* ------------------------------------------------------------ reads
\* peek that marks the entry most recently used, as get does
peek_touching(c, key) ==
    LET e == get_from_table(c, key)
    IN IF e # NULL
       THEN Done(touch_ptr(c, e), SomeValue(c.table[e].value))
       ELSE Done(c, None)

peek(c, key) ==
    LET e == get_from_table(c, key)
    IN Done(c, IF e # NULL THEN SomeValue(c.table[e].value) ELSE None)

contains(c, key) ==
    Done(c, IF \E s \in DOMAIN c.table : c.table[s].key = key
            THEN Ret("true", NoVal, NoVal, NoVal, NoVal)
            ELSE Ret("false", NoVal, NoVal, NoVal, NoVal))

peek_checked_ptr(c, entry) ==
    IF entry = NULL THEN None
    ELSE SomePair(c.table[entry].key, c.table[entry].value)

peek_lru(c) == Done(c, peek_checked_ptr(c, c.tail))

peek_mru(c) == Done(c, peek_checked_ptr(c, c.head))

\* get that returns the value without marking it most recently used
get_no_touch(c, key) ==
    LET entry_ptr == get_mut_from_table(c, key)
    IN IF entry_ptr # NULL THEN Done(c, SomeValue(c.table[entry_ptr].value))
       ELSE Done(c, None)

get(c, key) ==
    LET entry_ptr == get_mut_from_table(c, key)
    IN IF entry_ptr # NULL
       THEN LET c1 == touch_ptr(c, entry_ptr)
            IN Done(c1, SomeValue(c1.table[entry_ptr].value))
       ELSE Done(c, None)

\* get_lru that reads the tail after the promotion
get_lru_reads_late(c) ==
    IF c.tail = NULL THEN Done(c, None)
    ELSE LET c1 == touch_ptr(c, c.tail)
         IN Done(c1, SomePair(c1.table[c1.tail].key,
                              c1.table[c1.tail].value))

get_lru(c) ==
    IF c.tail = NULL THEN Done(c, None)
    ELSE LET old_tail == c.tail
             c1 == touch_ptr(c, c.tail)
         IN Done(c1, SomePair(c1.table[old_tail].key,
                              c1.table[old_tail].value))

touch(c, key) ==
    LET entry_ptr == get_mut_from_table(c, key)
    IN IF entry_ptr # NULL THEN Done(touch_ptr(c, entry_ptr), Unit)
       ELSE Done(c, Unit)

\* ---------------------------------------------------------- removals
remove_entry(c, key) ==
    LET entry_ptr == get_mut_from_table(c, key)
    IN IF entry_ptr # NULL
       THEN Done(remove_ptr(c, entry_ptr),
                 SomePair(c.table[entry_ptr].key, c.table[entry_ptr].value))
       ELSE Done(c, None)

remove(c, key) ==
    LET r == remove_entry(c, key)
    IN IF r.ret.kind = "Some" THEN [r EXCEPT !.ret = SomeValue(r.ret.value)]
       ELSE r

remove_lru_entry(c) ==
    Done(remove_lru(c), peek_checked_ptr(c, c.tail))

remove_mru_entry(c) ==
    Done(remove_mru(c), peek_checked_ptr(c, c.head))

\* clear that empties the table and the list and keeps the ledger
clear_keep_ledger(c) ==
    Done([c EXCEPT !.table = EmptyTable, !.head = NULL, !.tail = NULL], Unit)

clear(c) ==
    Done([c EXCEPT !.table = EmptyTable, !.head = NULL, !.tail = NULL,
                   !.current_size = 0], Unit)

\* set_max_size that stores the ceiling and forgets to evict
set_max_size_no_eject(c, max_size) ==
    Done([c EXCEPT !.max_size = max_size], Unit)

\* set_max_size that marks the tail most recently used before it evicts
set_max_size_touch_first(c, max_size) ==
    LET ej == IF c.current_size > max_size
              THEN eject_to_target(IF c.tail = NULL THEN c
                                   ELSE touch_ptr(c, c.tail), max_size)
              ELSE [c |-> c, evicted |-> <<>>, hang |-> FALSE]
    IN [Done(IF ej.hang THEN ej.c ELSE [ej.c EXCEPT !.max_size = max_size],
             Unit)
          EXCEPT !.evicted = ej.evicted, !.hang = ej.hang]

set_max_size(c, max_size) ==
    LET ej == IF c.current_size > max_size
              THEN eject_to_target(c, max_size)
              ELSE [c |-> c, evicted |-> <<>>, hang |-> FALSE]
    IN [Done(IF ej.hang THEN ej.c ELSE [ej.c EXCEPT !.max_size = max_size],
             Unit)
          EXCEPT !.evicted = ej.evicted, !.hang = ej.hang]

\* ------------------------------------------------------------ insert
\* the loop of insert: try the table, reallocate and retry when it is full
RECURSIVE insert_loop(_, _, _)
insert_loop(c, entry, reallocs) ==
    LET ins == insert_into_table(c, entry)
    IN IF ins.ok
       THEN [c |-> set_head([ins.c EXCEPT !.current_size = @ + entry.size],
                            ins.ptr),
             reallocs |-> reallocs, hang |-> FALSE, panic |-> FALSE]
       ELSE IF reallocs >= RetryLimit
            THEN [c |-> c, reallocs |-> reallocs, hang |-> TRUE,
                  panic |-> FALSE]
            ELSE LET re == reallocate(c, c.capacity * 2 + 1)
                 IN IF re.panic
                    THEN [c |-> re.c, reallocs |-> reallocs + 1,
                          hang |-> FALSE, panic |-> TRUE]
                    ELSE insert_loop(re.c, entry, reallocs + 1)

\* insert_fitting that does not remove the old entry of the key first
insert_fitting_no_dedup(c, entry) ==
    LET ej == eject_to_target(c, c.max_size - entry.size)
        lp == insert_loop(ej.c, entry, 0)
    IN [Done(lp.c, OkNone) EXCEPT !.evicted = ej.evicted,
                                  !.reallocs = lp.reallocs,
                                  !.hang = ej.hang \/ lp.hang,
                                  !.panic = lp.panic]

\* insert that makes space down to the entry's size instead of max_size
\* less the entry's size
insert_fitting_eject_to_size(c, entry) ==
    LET e == get_mut_from_table(c, entry.key)
        result == IF e # NULL THEN OkSome(c.table[e].value) ELSE OkNone
        c1 == IF e # NULL THEN remove_ptr(c, e) ELSE c
        ej == eject_to_target(c1, entry.size)
        lp == insert_loop(ej.c, entry, 0)
    IN IF ej.hang
       THEN [Done(ej.c, result) EXCEPT !.evicted = ej.evicted, !.hang = TRUE]
       ELSE [Done(lp.c, result) EXCEPT !.evicted = ej.evicted,
                                       !.reallocs = lp.reallocs,
                                       !.hang = lp.hang,
                                       !.panic = lp.panic]

\* insert that makes space before it removes the old entry of the key
insert_fitting_debit_late(c, entry) ==
    LET e == get_mut_from_table(c, entry.key)
        result == IF e # NULL THEN OkSome(c.table[e].value) ELSE OkNone
        ej == eject_to_target(c, c.max_size - entry.size)
        e1 == get_mut_from_table(ej.c, entry.key)
        c1 == IF e1 # NULL THEN remove_ptr(ej.c, e1) ELSE ej.c
        lp == insert_loop(c1, entry, 0)
    IN IF ej.hang
       THEN [Done(ej.c, result) EXCEPT !.evicted = ej.evicted, !.hang = TRUE]
       ELSE [Done(lp.c, result) EXCEPT !.evicted = ej.evicted,
                                       !.reallocs = lp.reallocs,
                                       !.hang = lp.hang,
                                       !.panic = lp.panic]

\* insert once the entry is known to fit: deduplicate the key, make space,
\* insert the entry at the head of the list
insert_fitting(c, entry) ==
    LET e == get_mut_from_table(c, entry.key)
        result == IF e # NULL THEN OkSome(c.table[e].value) ELSE OkNone
        c1 == IF e # NULL THEN remove_ptr(c, e) ELSE c
        ej == eject_to_target(c1, c1.max_size - entry.size)
        lp == insert_loop(ej.c, entry, 0)
    IN IF ej.hang
       THEN [Done(ej.c, result) EXCEPT !.evicted = ej.evicted, !.hang = TRUE]
       ELSE [Done(lp.c, result) EXCEPT !.evicted = ej.evicted,
                                       !.reallocs = lp.reallocs,
                                       !.hang = lp.hang,
                                       !.panic = lp.panic]

\* insert that removes the old entry of the key before the size check
insert_dedup_first(c, key, value) ==
    LET entry == EntryNew(key, value)
        e == get_mut_from_table(c, entry.key)
        c1 == IF e # NULL THEN remove_ptr(c, e) ELSE c
    IN IF entry.size > c1.max_size
       THEN Done(c1, EntryTooLarge(entry.key, entry.value, entry.size,
                                   c1.max_size))
       ELSE insert_fitting(c1, entry)

insert(c, key, value) ==
    LET entry == EntryNew(key, value)
    IN IF entry.size > c.max_size
       THEN Done(c, EntryTooLarge(entry.key, entry.value, entry.size,
                                  c.max_size))
       ELSE insert_fitting(c, entry)

\* ------------------------------------------------------------ mutate
\* the closures handed to mutate: op(d) pushes d elements to the value (pops
\* them when d < 0) and returns the value it found
Op(d, value) == [value |-> value + d, result |-> value]

\* mutate_expanding that evicts without marking the entry most recently
\* used first
mutate_expanding_no_touch(c, key, entry, diff, result) ==
    LET max_size == c.max_size
        new_entry_size == c.table[entry].size + diff
    IN IF new_entry_size > max_size
       THEN LET rm == remove_entry(c, key)
            IN Done(rm.c, EntryTooLarge(rm.ret.key, rm.ret.value,
                                        new_entry_size, max_size))
       ELSE LET c1 == [c EXCEPT !.table[entry].size = new_entry_size,
                                !.current_size = @ + diff]
                ej == eject_to_target(c1, max_size)
            IN [Done(ej.c, OkSome(result)) EXCEPT !.evicted = ej.evicted,
                                                  !.hang = ej.hang]

\* mutate_expanding that raises the error and keeps the entry
mutate_expanding_keep(c, key, entry, diff, result) ==
    LET max_size == c.max_size
        new_entry_size == c.table[entry].size + diff
    IN IF new_entry_size > max_size
       THEN Done(c, EntryTooLarge(key, c.table[entry].value, new_entry_size,
                                  max_size))
       ELSE LET c1 == [c EXCEPT !.table[entry].size = new_entry_size,
                                !.current_size = @ + diff]
                c2 == touch_ptr(c1, entry)
                ej == eject_to_target(c2, max_size)
            IN [Done(ej.c, OkSome(result)) EXCEPT !.evicted = ej.evicted,
                                                  !.hang = ej.hang]

\* the expanding branch: c is the cache with the value already mutated
mutate_expanding(c, key, entry, diff, result) ==
    LET max_size == c.max_size
        new_entry_size == c.table[entry].size + diff
    IN IF new_entry_size > max_size
       THEN LET rm == remove_entry(c, key)
            IN Done(rm.c, EntryTooLarge(rm.ret.key, rm.ret.value,
                                        new_entry_size, max_size))
       ELSE LET c1 == [c EXCEPT !.table[entry].size = new_entry_size,
                                !.current_size = @ + diff]
                c2 == touch_ptr(c1, entry)
                ej == eject_to_target(c2, max_size)
            IN [Done(ej.c, OkSome(result)) EXCEPT !.evicted = ej.evicted,
                                                  !.hang = ej.hang]

\* the non-expanding branch that debits the entry and not the ledger
mutate_non_expanding_entry_only(c, entry, diff, result) ==
    LET c1 == [c EXCEPT !.table[entry].size = @ - diff]
        c2 == touch_ptr(c1, entry)
    IN Done(c2, OkSome(result))

\* the non-expanding branch that debits the ledger and not the entry
mutate_non_expanding_ledger_only(c, entry, diff, result) ==
    LET c1 == [c EXCEPT !.current_size = @ - diff]
        c2 == touch_ptr(c1, entry)
    IN Done(c2, OkSome(result))

\* the non-expanding branch: c is the cache with the value already mutated
mutate_non_expanding(c, entry, diff, result) ==
    LET c1 == [c EXCEPT !.table[entry].size = @ - diff,
                        !.current_size = @ - diff]
        c2 == touch_ptr(c1, entry)
    IN Done(c2, OkSome(result))

\* mutate that calls the closure a second time to measure the new size
mutate_twice(c, key, d) ==
    LET entry == get_mut_from_table(c, key)
    IN IF entry # NULL
       THEN LET old_value_size == value_mem_size(c.table[entry].value)
                first == Op(d, c.table[entry].value)
                called == Op(d, first.value)
                c0 == [c EXCEPT !.table[entry].value = called.value]
                new_value_size == value_mem_size(c0.table[entry].value)
            IN [(IF new_value_size > old_value_size
                 THEN mutate_expanding(c0, key, entry,
                          new_value_size - old_value_size, first.result)
                 ELSE mutate_non_expanding(c0, entry,
                          old_value_size - new_value_size, first.result))
                  EXCEPT !.calls = 2]
       ELSE Done(c, OkNone)

mutate(c, key, d) ==
    LET entry == get_mut_from_table(c, key)
    IN IF entry # NULL
       THEN LET old_value_size == value_mem_size(c.table[entry].value)
                called == Op(d, c.table[entry].value)
                c0 == [c EXCEPT !.table[entry].value = called.value]
                new_value_size == value_mem_size(c0.table[entry].value)
            IN [(IF new_value_size > old_value_size
                 THEN mutate_expanding(c0, key, entry,
                          new_value_size - old_value_size, called.result)
                 ELSE mutate_non_expanding(c0, entry,
                          old_value_size - new_value_size, called.result))
                  EXCEPT !.calls = 1]
       ELSE Done(c, OkNone)

\* ---------------------------------------------------------- capacity
UsizeMax == 2 ^ UsizeBits - 1

\* a + b on usize as a build without overflow checks computes it
usize_add(a, b) == (a + b) % (UsizeMax + 1)

\* RawTable::try_reserve gives up on a request whose table layout is not
\* addressable, before it asks the allocator
CapacityOverflow(additional) == additional > UsizeMax \div 2

\* the result of a + b that does not fit the word, in a build with overflow
\* checks
AddOverflowPanic == Ret("panic", NoVal, NoVal, NoVal, NoVal)

reserve(c, additional) ==
    LET new_capacity == usize_add(len(c), additional)
    IN IF c.capacity < new_capacity
       THEN LET re == reallocate(c, new_capacity)
            IN [Done(re.c, Unit) EXCEPT !.reallocs = 1, !.panic = re.panic]
       ELSE Done(c, Unit)

\* try_reserve that returns the error at once, before the salvaged entries
\* are put back
try_reserve_early_return(c, additional, alloc_ok, overflow_checks) ==
    LET new_capacity == usize_add(len(c), additional)
        served == alloc_ok /\ ~CapacityOverflow(new_capacity)
    IN IF overflow_checks /\ len(c) + additional > UsizeMax
       THEN Done(c, AddOverflowPanic)
       ELSE IF c.capacity < new_capacity
       THEN IF served
            THEN LET re == reallocate_with(c,
                              ReserveCapacity(c.capacity, new_capacity))
                 IN [Done(re.c, Ret("Ok", NoVal, NoVal, NoVal, NoVal))
                       EXCEPT !.reallocs = 1, !.panic = re.panic]
            ELSE [Done([c EXCEPT !.table = EmptyTable, !.head = NULL,
                                 !.tail = NULL],
                       Ret("Err", NoVal, NoVal, NoVal, NoVal))
                    EXCEPT !.reallocs = 1]
       ELSE Done(c, Ret("Ok", NoVal, NoVal, NoVal, NoVal))

\* alloc_ok: whether the allocator serves the request; overflow_checks:
\* whether the build checks arithmetic for overflow (it panics then, and
\* wraps otherwise)
try_reserve(c, additional, alloc_ok, overflow_checks) ==
    LET new_capacity == usize_add(len(c), additional)
        served == alloc_ok /\ ~CapacityOverflow(new_capacity)
    IN IF overflow_checks /\ len(c) + additional > UsizeMax
       THEN Done(c, AddOverflowPanic)
       ELSE IF c.capacity < new_capacity
       THEN LET re == reallocate_with(c,
                         IF served
                         THEN ReserveCapacity(c.capacity, new_capacity)
                         ELSE c.capacity)
            IN [Done(re.c, IF served
                           THEN Ret("Ok", NoVal, NoVal, NoVal, NoVal)
                           ELSE Ret("Err", NoVal, NoVal, NoVal, NoVal))
                  EXCEPT !.reallocs = 1, !.panic = re.panic]
       ELSE Done(c, Ret("Ok", NoVal, NoVal, NoVal, NoVal))

\* shrink_to that shrinks to min_capacity whatever the number of entries
shrink_to_ignore_len(c, min_capacity) ==
    LET new_capacity == min_capacity
    IN IF c.capacity > new_capacity
       THEN LET re == reallocate_with(c,
                         ShrinkCapacity(c.capacity, new_capacity))
            IN [Done(re.c, Unit) EXCEPT !.reallocs = 1, !.panic = re.panic]
       ELSE Done(c, Unit)

shrink_to(c, min_capacity) ==
    LET new_capacity == IF len(c) > min_capacity THEN len(c)
                        ELSE min_capacity
    IN IF c.capacity > new_capacity
       THEN LET re == reallocate_with(c,
                         ShrinkCapacity(c.capacity, new_capacity))
            IN [Done(re.c, Unit) EXCEPT !.reallocs = 1, !.panic = re.panic]
       ELSE Done(c, Unit)

shrink_to_fit(c) == shrink_to(c, 0)

\* ------------------------------------------------------------- clone
\* a pointer copied out of another cache's table
Foreign(p) == IF p = NULL THEN NULL ELSE 0 - p

\* clone that builds the copy and does not carry the ledger over
clone_no_ledger(c) ==
    LET fresh == with_capacity(c.max_size, c.capacity)
        entries == [i \in 1..Len(Salvage(c)) |->
                      [Salvage(c)[i] EXCEPT !.prev = Foreign(@),
                                            !.next = Foreign(@)]]
    IN insert_all([c |-> fresh, panic |-> FALSE], entries)

\* clone that walks the list from the head along next
clone_head_first(c) ==
    LET fresh == [with_capacity(c.max_size, c.capacity)
                    EXCEPT !.current_size = c.current_size]
        n == Len(Salvage(c))
        entries == [i \in 1..n |->
                      [Salvage(c)[n + 1 - i] EXCEPT !.prev = Foreign(@),
                                                    !.next = Foreign(@)]]
    IN insert_all([c |-> fresh, panic |-> FALSE], entries)

clone(c) ==
    LET fresh == [with_capacity(c.max_size, c.capacity)
                    EXCEPT !.current_size = c.current_size]
        entries == [i \in 1..Len(Salvage(c)) |->
                      [Salvage(c)[i] EXCEPT !.prev = Foreign(@),
                                            !.next = Foreign(@)]]
    IN insert_all([c |-> fresh, panic |-> FALSE], entries)

\* --------------------------------------------------------- iterators
\* Iter::new, Keys::new, Values::new: a double-ended iterator holds a
\* cursor at the tail for next and a cursor at the head for next_back
IterNew(c) == [next |-> c.tail, next_back |-> c.head]

Exhausted == [next |-> NULL, next_back |-> NULL]

\* what iter(), keys() and values() yield for the entry in bucket p
Item(c, kind, p) ==
    IF kind = "keys" THEN Ret("Some", c.table[p].key, NoVal, NoVal, NoVal)
    ELSE IF kind = "values" THEN SomeValue(c.table[p].value)
    ELSE SomePair(c.table[p].key, c.table[p].value)

\* Iterator::next: the entry at the front cursor, which then moves one
\* entry toward the head; the iterator is exhausted once the cursors met
iter_next(c, kind, it) ==
    IF it.next = NULL THEN [it |-> it, item |-> None]
    ELSE [it |-> IF it.next = it.next_back THEN Exhausted
                 ELSE [it EXCEPT !.next = c.table[it.next].prev],
          item |-> Item(c, kind, it.next)]

\* DoubleEndedIterator::next_back: the entry at the back cursor, which then
\* moves one entry toward the tail
iter_next_back(c, kind, it) ==
    IF it.next_back = NULL THEN [it |-> it, item |-> None]
    ELSE [it |-> IF it.next = it.next_back THEN Exhausted
                 ELSE [it EXCEPT !.next_back = c.table[it.next_back].next],
          item |-> Item(c, kind, it.next_back)]

\* the items of a run of calls: pattern[i] tells whether call i is next
\* (TRUE) or next_back (FALSE)
RECURSIVE iter_run(_, _, _, _)
iter_run(c, kind, it, pattern) ==
    IF pattern = <<>> THEN <<>>
    ELSE LET step == IF Head(pattern) THEN iter_next(c, kind, it)
                     ELSE iter_next_back(c, kind, it)
         IN <<[front |-> Head(pattern), item |-> step.item]>>
               \o iter_run(c, kind, step.it, Tail(pattern))

\* the items of next called until it returns None, n calls at most
RECURSIVE collect(_, _, _, _)
collect(c, kind, it, n) ==
    LET step == iter_next(c, kind, it)
    IN IF step.item = None \/ n = 0 THEN <<>>
       ELSE <<step.item>> \o collect(c, kind, step.it, n - 1)

\* drain().collect(): the pairs from the tail to the head, and the cache
\* the dropped drain leaves
drain(c) ==
    [c |-> [c EXCEPT !.table = EmptyTable, !.head = NULL, !.tail = NULL,
                     !.current_size = 0],
     yielded |-> collect(c, "iter", IterNew(c), len(c))]

\* ------------------------------------------------- the state machine
NoCopy == with_table_and_hasher(NoVal, 0)

Present(c) == {c.table[s].key : s \in DOMAIN c.table}

\* the keys in the order of their last use, oldest first
UseOrder(u, key) == Append(RemoveKey(u, key), key)

Call(op, key, arg, r, copy) ==
    [op |-> op, key |-> key, arg |-> arg, ret |-> r.ret,
     evicted |-> r.evicted, calls |-> r.calls, reallocs |-> r.reallocs,
     hang |-> r.hang, panic |-> r.panic, copy |-> copy]

\* a call that counts as a use of key when used holds
Step(op, key, arg, r, used) ==
    /\ cache' = r.c
    /\ last' = Call(op, key, arg, r, NoCopy)
    /\ uses' = SelectSeq(IF used THEN UseOrder(uses, key) ELSE uses,
                         LAMBDA x : x \in Present(r.c))

Init ==
    /\ \E m \in Ceilings : \E n \in Capacities :
          cache = with_capacity(m, n)
    /\ last = Call("new", NoVal, NoVal, Done(cache, Unit), NoCopy)
    /\ uses = <<>>

Insert(k, v) ==
    LET r == insert(cache, k, v)
    IN Step("insert", k, v, r, r.ret.kind # "EntryTooLarge")

Mutate(k, d) ==
    /\ k \in Present(cache) =>
          cache.table[get_from_table(cache, k)].value + d \in Values
    /\ Step("mutate", k, d, mutate(cache, k, d), k \in Present(cache))

SetMaxSize(m) == Step("set_max_size", NoVal, m, set_max_size(cache, m), FALSE)

Get(k) == Step("get", k, NoVal, get(cache, k), k \in Present(cache))

GetLru ==
    Step("get_lru", IF uses = <<>> THEN NoVal ELSE Head(uses), NoVal,
         get_lru(cache), uses # <<>>)

Touch(k) == Step("touch", k, NoVal, touch(cache, k), k \in Present(cache))

Peek(k) == Step("peek", k, NoVal, peek(cache, k), FALSE)

Contains(k) == Step("contains", k, NoVal, contains(cache, k), FALSE)

PeekLru == Step("peek_lru", NoVal, NoVal, peek_lru(cache), FALSE)

PeekMru == Step("peek_mru", NoVal, NoVal, peek_mru(cache), FALSE)

Remove(k) == Step("remove", k, NoVal, remove(cache, k), FALSE)

RemoveEntry(k) == Step("remove_entry", k, NoVal, remove_entry(cache, k), FALSE)

RemoveLru == Step("remove_lru", NoVal, NoVal, remove_lru_entry(cache), FALSE)

RemoveMru == Step("remove_mru", NoVal, NoVal, remove_mru_entry(cache), FALSE)

Clear == Step("clear", NoVal, NoVal, clear(cache), FALSE)

Reserve(a) == Step("reserve", NoVal, a, reserve(cache, a), FALSE)

\* the arguments of try_reserve: small ones and the largest two of the word
Additionals == Capacities \cup {UsizeMax - 1, UsizeMax}

TryReserve(a, alloc_ok, overflow_checks) ==
    Step("try_reserve", NoVal, a,
         try_reserve(cache, a, alloc_ok, overflow_checks), FALSE)

ShrinkTo(n) == Step("shrink_to", NoVal, n, shrink_to(cache, n), FALSE)

ShrinkToFit == Step("shrink_to_fit", NoVal, NoVal, shrink_to_fit(cache), FALSE)

Clone ==
    LET r == clone(cache)
    IN /\ last' = Call("clone", NoVal, NoVal,
                       [Done(cache, Unit) EXCEPT !.panic = r.panic], r.c)
       /\ UNCHANGED <<cache, uses>>

Next ==
    \/ \E k \in Keys : \E v \in Values : Insert(k, v)
    \/ \E k \in Keys : \E d \in (0 - MaxValue)..MaxValue : Mutate(k, d)
    \/ \E m \in Ceilings : SetMaxSize(m)
    \/ \E k \in Keys : Get(k)
    \/ GetLru
    \/ \E k \in Keys : Touch(k)
    \/ \E k \in Keys : Peek(k)
    \/ \E k \in Keys : Contains(k)
    \/ PeekLru
    \/ PeekMru
    \/ \E k \in Keys : Remove(k)
    \/ \E k \in Keys : RemoveEntry(k)
    \/ RemoveLru
    \/ RemoveMru
    \/ Clear
    \/ \E a \in Capacities : Reserve(a)
    \/ \E a \in Additionals : \E alloc_ok, overflow_checks \in BOOLEAN :
          TryReserve(a, alloc_ok, overflow_checks)
    \/ \E n \in Capacities : ShrinkTo(n)
    \/ ShrinkToFit
    \/ Clone

Spec == Init /\ [][Next]_vars

\* --------------------------------------- the iterators' state machine
\* the record of a call that yielded items
Yielded(op, r, yielded) ==
    Call(op, NoVal, NoVal, r, NoCopy) @@ [yielded |-> yielded]

IterKinds == {"iter", "keys", "values"}

\* the runs of next and next_back that take every entry of c, followed by
\* two more calls of each
Patterns(c) ==
    {p \o <<TRUE, FALSE, TRUE, FALSE>> : p \in [1..len(c) -> BOOLEAN]}

Iterate(kind, pattern) ==
    /\ last' = Yielded(kind, Done(cache, Unit),
                       iter_run(cache, kind, IterNew(cache), pattern))
    /\ UNCHANGED <<cache, uses>>

Drain ==
    LET r == drain(cache)
    IN /\ cache' = r.c
       /\ last' = Yielded("drain", Done(r.c, Unit), r.yielded)
       /\ uses' = <<>>

NextIter ==
    \/ \E k \in Keys : \E v \in Values : Insert(k, v)
    \/ \E k \in Keys : Get(k)
    \/ \E k \in Keys : Remove(k)
    \/ \E a \in Capacities : Reserve(a)
    \/ \E kind \in IterKinds : \E pattern \in Patterns(cache) :
          Iterate(kind, pattern)
    \/ Drain

SpecIter == Init /\ [][NextIter]_vars

\* ------------------------------------- the eviction-by-size scenario
\* a ceiling that admits exactly two entries of 100 bytes and one of 80
ScenarioMaxSize == 2 * 100 + 80

\* the (key, value) pairs A, B, C of the entries of 80 bytes and D, E of the
\* entries of 100 bytes
ScenarioA == <<24, 2>>
ScenarioB == <<40, 1>>
ScenarioC == <<56, 0>>
ScenarioD == <<44, 2>>
ScenarioE == <<60, 1>>
ScenarioEntries ==
    {ScenarioA, ScenarioB, ScenarioC, ScenarioD, ScenarioE}

InitScenario ==
    /\ \E n \in Capacities : cache = with_capacity(ScenarioMaxSize, n)
    /\ last = Call("new", NoVal, NoVal, Done(cache, Unit), NoCopy)
    /\ uses = <<>>

NextScenario ==
    \/ \E e \in ScenarioEntries : Insert(e[1], e[2])
    \/ \E e \in ScenarioEntries : Get(e[1])
    \/ \E e \in ScenarioEntries : Remove(e[1])
    \/ Clear

SpecScenario == InitScenario /\ [][NextScenario]_vars

\* ------------------------------------ a cache and its clone, side by side
\* the keys, values and ceilings the two caches are called with
CloneKeys == {1, MaxKey}
CloneValues == {0, MaxValue}
CloneCeilings == {2 * MetaSize + 6, 5 * MetaSize}

\* the pointers held by c that refer to entries of another cache's table
ForeignLinks(c) ==
    {p \in {c.head, c.tail}
           \cup {c.table[s].prev : s \in DOMAIN c.table}
           \cup {c.table[s].next : s \in DOMAIN c.table} : p < 0}

\* What a call on c can leave of the other cache.  The caches own their
\* tables, so a call writes to the other cache only through a link of c
\* that refers to one of its entries: unhinge and set_head store prev and
\* next through such links.
Leak(c, other) ==
    LET hit == {0 - p : p \in ForeignLinks(c)} \cap DOMAIN other.table
    IN {other}
          \cup {[other EXCEPT !.table[s].prev = NULL] : s \in hit}
          \cup {[other EXCEPT !.table[s].next = NULL] : s \in hit}

\* the caches that one call of insert, get, touch, mutate, remove, clear,
\* set_max_size, reserve or shrink_to_fit on c can leave
AfterCall(c) ==
    {insert(c, k, v).c : k \in CloneKeys, v \in CloneValues}
       \cup {get(c, k).c : k \in CloneKeys}
       \cup {touch(c, k).c : k \in CloneKeys}
       \cup {mutate(c, k, d).c :
                k \in {x \in Present(c) : x \in CloneKeys},
                d \in {x \in {0 - MaxValue, MaxValue} :
                          \A s \in DOMAIN c.table :
                             c.table[s].value + x \in Values}}
       \cup {remove(c, k).c : k \in CloneKeys}
       \cup {clear(c).c}
       \cup {set_max_size(c, m).c : m \in CloneCeilings}
       \cup {reserve(c, a).c : a \in Capacities}
       \cup {shrink_to_fit(c).c}

\* the record of a call on one of the two caches; copy is the clone
PairCall(op, copy) == Call(op, NoVal, NoVal, Done(copy, Unit), copy)

InitClone ==
    /\ \E m \in CloneCeilings : cache = new(m)
    /\ last = PairCall("new", NoCopy)
    /\ uses = <<>>

CloneNow ==
    /\ last.copy = NoCopy
    /\ last' = PairCall("clone", clone(cache).c)
    /\ UNCHANGED <<cache, uses>>

OnOriginal ==
    /\ \E c1 \in AfterCall(cache) :
          \E y \in (IF last.copy = NoCopy THEN {NoCopy}
                    ELSE Leak(cache, last.copy)) :
             /\ cache' = c1
             /\ last' = PairCall("on_original", y)
    /\ UNCHANGED uses

OnClone ==
    /\ last.copy # NoCopy
    /\ \E y \in AfterCall(last.copy) :
          \E c1 \in Leak(last.copy, cache) :
             /\ cache' = c1
             /\ last' = PairCall("on_clone", y)
    /\ UNCHANGED uses

NextClone == CloneNow \/ OnOriginal \/ OnClone

SpecClone == InitClone /\ [][NextClone]_vars

\* --------------------------------------------- a table that fills up
\* one key more than the smallest table holds, so that insert meets a full
\* table and has to reallocate it
GrowKeys == 1..(CapacityFor(1) + 1)
GrowValues == {0, MaxValue}
\* ceilings that hold no entry, two entries, and one entry of every key
GrowCeilings == {0, 2 * MetaSize + 6, 5 * MetaSize}

InitGrow ==
    /\ \E m \in GrowCeilings : \E n \in {0, 1} : cache = with_capacity(m, n)
    /\ last = Call("new", NoVal, NoVal, Done(cache, Unit), NoCopy)
    /\ uses = <<>>

NextGrow ==
    \/ \E k \in GrowKeys : \E v \in GrowValues : Insert(k, v)
    \/ \E k \in GrowKeys : \E d \in {0 - MaxValue, 0, MaxValue} : Mutate(k, d)
    \/ \E m \in GrowCeilings : SetMaxSize(m)
    \/ \E k \in GrowKeys : Remove(k)
    \/ ShrinkToFit

SpecGrow == InitGrow /\ [][NextGrow]_vars

\* ------------------------------------------------------------ sanity
TypeOK ==
    /\ cache.current_size \in Nat
    /\ cache.max_size \in Ceilings
    /\ cache.capacity \in {0, 3, 7, 14}
    /\ \A s \in DOMAIN cache.table :
          /\ cache.table[s].key \in Keys
          /\ cache.table[s].value \in Values
    /\ ~last.hang /\ ~last.panic

\* ==================================================================
\* The claims
\* ==================================================================
RECURSIVE SumSizes(_, _)
SumSizes(c, slots) ==
    IF slots = {} THEN 0
    ELSE LET s == CHOOSE x \in slots : TRUE
         IN c.table[s].size + SumSizes(c, slots \ {s})

\* the sum of the cached sizes of the entries the table holds
TableSize(c) == SumSizes(c, DOMAIN c.table)

\* C1: ceiling invariant.  After every completed public operation the
\* ledger is within the ceiling, current_size <= max_size; the cache that
\* clone returns satisfies it as well.
C1_Ceiling ==
    ~last.hang =>
        /\ cache.current_size <= cache.max_size
        /\ last.op = "clone" => last.copy.current_size <= last.copy.max_size

\* the ceiling was lowered below the ledger, entries were evicted and some
\* entry survived
C1_Witness ==
    /\ last.op = "set_max_size"
    /\ last.evicted # <<>>
    /\ cache.current_size > 0
    /\ cache.current_size <= cache.max_size

\* C2: ledger soundness.  After every public operation current_size is the
\* sum of the cached size fields of the entries in the cache; the same holds
\* of the cache that clone returns.
C2_LedgerSound ==
    /\ cache.current_size = TableSize(cache)
    /\ last.op = "clone" => last.copy.current_size = TableSize(last.copy)

\* a mutate that changed an entry's size next to another entry, after which
\* the ledger is the sum of two sizes
C2_Witness ==
    /\ last.op = "mutate"
    /\ last.arg # 0
    /\ last.ret.kind = "Ok(Some)"
    /\ len(cache) >= 2
    /\ cache.current_size = TableSize(cache)

Range(q) == {q[i] : i \in 1..Len(q)}

\* x's last use is older than y's in the use order u
Older(u, x, y) ==
    \E i, j \in 1..Len(u) : i < j /\ u[i] = x /\ u[j] = y

ValueOf(c, key) == c.table[get_from_table(c, key)].value

SizeOf(c, key) == c.table[get_from_table(c, key)].size

\* C3: LRU eviction order.  Whenever insert, set_max_size or mutate evicts
\* entries, the evicted entries are a prefix of the least-to-most recently
\* used order before the eviction: an entry is evicted only if every entry
\* whose last use (insert, get hit, get_lru, touch hit, mutate hit) is older
\* has been evicted too.  peek, contains, peek_lru and peek_mru are no uses.
C3_LruEvictionOrder ==
    [][last'.op \in {"insert", "set_max_size", "mutate"} =>
        LET hit == last'.key \in Present(cache)
            removed == IF last'.op = "mutate"
                          /\ last'.ret.kind = "EntryTooLarge"
                       THEN {last'.key} ELSE {}
            gone == (Present(cache) \ Present(cache')) \ removed
            order == IF \/ last'.op = "insert" /\ last'.ret.kind # "EntryTooLarge"
                        \/ last'.op = "mutate" /\ hit
                     THEN UseOrder(uses, last'.key) ELSE uses
            before == IF last'.op = "insert" THEN RemoveKey(order, last'.key)
                      ELSE order
        IN /\ Range(last'.evicted) = gone
           /\ IsPrefix(last'.evicted, before)
           /\ \A e \in gone : \A o \in Present(cache) :
                 Older(order, o, e) => o \in gone
    ]_vars

\* an insert evicted one entry and spared a younger one
C3_Witness ==
    /\ last.op = "insert"
    /\ Len(last.evicted) = 1
    /\ Len(uses) >= 2
    /\ last.evicted[1] \notin Present(cache)

\* C4: insert(k, v) of an entry whose size is at most max_size returns Ok
\* with the value stored under k before (None when k was absent);
\* afterwards peek(k) and get(k) yield v, k is the most recently used entry
\* and the cache holds exactly one entry for k.
C4_InsertFits ==
    [][(last'.op = "insert"
        /\ EntryNew(last'.key, last'.arg).size <= cache.max_size) =>
        LET k == last'.key
            v == last'.arg
            order == KeysLruToMru(cache')
        IN /\ last'.ret = IF k \in Present(cache)
                          THEN OkSome(ValueOf(cache, k)) ELSE OkNone
           /\ peek(cache', k).ret = SomeValue(v)
           /\ get(cache', k).ret = SomeValue(v)
           /\ peek_mru(cache').ret = SomePair(k, v)
           /\ order # <<>> /\ order[Len(order)] = k
           /\ Cardinality({s \in DOMAIN cache'.table :
                              cache'.table[s].key = k}) = 1
           /\ Cardinality({i \in 1..Len(order) : order[i] = k}) = 1
    ]_vars

\* an insert whose entry is exactly as large as the ceiling replaced the
\* value of its key
C4_Witness ==
    /\ last.op = "insert"
    /\ last.ret.kind = "Ok(Some)"
    /\ EntryNew(last.key, last.arg).size = cache.max_size
    /\ peek(cache, last.key).ret = SomeValue(last.arg)

\* C5: insert(k, v) of an entry whose size alone exceeds max_size fails with
\* EntryTooLarge carrying k, v, the entry's size and max_size, and changes
\* nothing: entries, values, recency order, current_size and max_size are as
\* before, also when k was present.
C5_InsertTooLarge ==
    [][(last'.op = "insert"
        /\ EntryNew(last'.key, last'.arg).size > cache.max_size) =>
        /\ last'.ret = EntryTooLarge(last'.key, last'.arg,
                           EntryNew(last'.key, last'.arg).size, cache.max_size)
        /\ cache' = cache
        /\ uses' = uses
    ]_vars

\* a rejected insert for a key that is in the cache with another value
C5_Witness ==
    /\ last.op = "insert"
    /\ last.ret.kind = "EntryTooLarge"
    /\ last.key \in Present(cache)
    /\ ValueOf(cache, last.key) # last.arg

\* C6: get(k) on a present key returns k's value and moves k's entry to the
\* head; the relative order of the other entries, every value and size, len
\* and current_size are unchanged, and when k was the tail the next
\* remove_lru returns the entry that followed it.
C6_GetPromotes ==
    [][(last'.op = "get" /\ last'.key \in Present(cache)) =>
        LET k == last'.key
            old == KeysLruToMru(cache)
        IN /\ last'.ret = SomeValue(ValueOf(cache, k))
           /\ KeysLruToMru(cache') = UseOrder(old, k)
           /\ peek_mru(cache').ret.key = k
           /\ Range(Contents(cache')) = Range(Contents(cache))
           /\ len(cache') = len(cache)
           /\ cache'.current_size = cache.current_size
           /\ cache'.max_size = cache.max_size
           /\ (Len(old) >= 2 /\ old[1] = k) =>
                 remove_lru_entry(cache').ret.key = old[2]
    ]_vars

\* get(1) on a cache holding 1, 2, 3 from least to most recently used
C6_Witness ==
    /\ last.op = "get"
    /\ last.key = 1
    /\ last.ret.kind = "Some"
    /\ KeysLruToMru(cache) = <<2, 3, 1>>

\* the sizes of the entries with the given keys, summed
RECURSIVE SumOfKeys(_, _)
SumOfKeys(c, keys) ==
    IF keys = <<>> THEN 0
    ELSE SizeOf(c, Head(keys)) + SumOfKeys(c, Tail(keys))

\* C7: peek, contains, peek_lru and peek_mru leave the whole cache state
\* unchanged (entries, recency order, current_size, max_size): two
\* consecutive peeks return the same result, and after peek(k) the least
\* recently used entry is the one it was, also when k is that entry.
C7_PeekFrame ==
    [][last'.op \in {"peek", "contains", "peek_lru", "peek_mru"} =>
        /\ cache' = cache
        /\ uses' = uses
        /\ (last.op = last'.op /\ last.key = last'.key) => last'.ret = last.ret
        /\ peek_lru(cache').ret = peek_lru(cache).ret
        /\ last'.op = "peek" =>
              last'.ret = IF last'.key \in Present(cache)
                          THEN SomeValue(ValueOf(cache, last'.key)) ELSE None
    ]_vars

\* a peek of the least recently used of several entries
C7_Witness ==
    /\ last.op = "peek"
    /\ last.ret.kind = "Some"
    /\ len(cache) >= 2
    /\ peek_lru(cache).ret.key = last.key

\* the bytes by which the closure op(d) enlarges the value stored under k
Growth(k, d) ==
    value_mem_size(Op(d, ValueOf(cache, k)).value)
        - value_mem_size(ValueOf(cache, k))

\* mutate(k, op(d)) finds k and op(d) enlarges its value
Grows(k, d) == k \in Present(cache) /\ Growth(k, d) > 0

\* C8: when mutate(k, op) enlarges the value by d bytes and the new entry
\* size is at most max_size, it returns Ok(Some(result)); k is still present
\* and most recently used, its cached size has grown by exactly d, the
\* evicted entries are other entries from the LRU end, and current_size is
\* the old current_size plus d minus the sizes of the evicted entries.
C8_MutateGrows ==
    [][(last'.op = "mutate" /\ Grows(last'.key, last'.arg)
        /\ SizeOf(cache, last'.key) + Growth(last'.key, last'.arg)
              <= cache.max_size) =>
        LET k == last'.key
            d == Growth(last'.key, last'.arg)
            others == RemoveKey(KeysLruToMru(cache), k)
            ev == last'.evicted
        IN /\ last'.ret = OkSome(Op(last'.arg, ValueOf(cache, k)).result)
           /\ k \in Present(cache')
           /\ peek_mru(cache').ret =
                 SomePair(k, Op(last'.arg, ValueOf(cache, k)).value)
           /\ SizeOf(cache', k) = SizeOf(cache, k) + d
           /\ Range(ev) = Present(cache) \ Present(cache')
           /\ k \notin Range(ev)
           /\ IsPrefix(ev, others)
           /\ KeysLruToMru(cache') =
                 Append(SubSeq(others, Len(ev) + 1, Len(others)), k)
           /\ cache'.current_size =
                 cache.current_size + d - SumOfKeys(cache, ev)
           /\ cache'.current_size <= cache'.max_size
    ]_vars

\* a growing mutate of the least recently used entry that pushed another
\* entry out
C8_Witness ==
    /\ last.op = "mutate"
    /\ last.arg > 0
    /\ last.ret.kind = "Ok(Some)"
    /\ last.evicted # <<>>
    /\ last.key \in Present(cache)

\* C9: when mutate(k, op) enlarges the value so that the projected entry
\* size (old entry size + growth) exceeds max_size, it fails with
\* EntryTooLarge carrying k, the mutated value, the projected size and
\* max_size; afterwards k is absent, current_size is lower by the entry's
\* size before the mutation, and no other entry is removed or reordered.
C9_MutateTooLarge ==
    [][(last'.op = "mutate" /\ Grows(last'.key, last'.arg)
        /\ SizeOf(cache, last'.key) + Growth(last'.key, last'.arg)
              > cache.max_size) =>
        LET k == last'.key
            d == Growth(last'.key, last'.arg)
        IN /\ last'.ret = EntryTooLarge(k,
                              Op(last'.arg, ValueOf(cache, k)).value,
                              SizeOf(cache, k) + d, cache.max_size)
           /\ contains(cache', k).ret.kind = "false"
           /\ cache'.current_size = cache.current_size - SizeOf(cache, k)
           /\ Contents(cache') =
                 SelectSeq(Contents(cache), LAMBDA e : e.key # k)
           /\ last'.evicted = <<>>
           /\ cache'.max_size = cache.max_size
    ]_vars

\* a mutate that failed and left other entries behind
C9_Witness ==
    /\ last.op = "mutate"
    /\ last.ret.kind = "EntryTooLarge"
    /\ last.ret.entry_size > cache.max_size
    /\ last.key \notin Present(cache)
    /\ len(cache) >= 1

\* C10: mutate(k, op) calls op exactly once when k is present, whether the
\* call then succeeds or fails with EntryTooLarge (the value kept or handed
\* back is op applied once), and never calls op when k is absent, in which
\* case it returns Ok(None).
C10_OpCalledOnce ==
    [][last'.op = "mutate" =>
        LET k == last'.key
            d == last'.arg
        IN IF k \in Present(cache)
           THEN /\ last'.calls = 1
                /\ last'.ret.kind \in {"Ok(Some)", "EntryTooLarge"}
                /\ last'.ret.kind = "Ok(Some)" =>
                      /\ ValueOf(cache', k) = Op(d, ValueOf(cache, k)).value
                      /\ last'.ret.value = Op(d, ValueOf(cache, k)).result
                /\ last'.ret.kind = "EntryTooLarge" =>
                      last'.ret.value = Op(d, ValueOf(cache, k)).value
           ELSE /\ last'.calls = 0
                /\ last'.ret = OkNone
                /\ cache' = cache
    ]_vars

\* a mutate that called op once and then failed
C10_Witness ==
    /\ last.op = "mutate"
    /\ last.calls = 1
    /\ last.ret.kind = "EntryTooLarge"
    /\ last.arg > 0

\* the contents of the entries other than key, from least to most recently
\* used
Others(c, key) == SelectSeq(Contents(c), LAMBDA e : e.key # key)

\* C11: when mutate(k, op) leaves the value's size unchanged or smaller by
\* d >= 0 bytes, the entry's cached size and current_size both decrease by
\* exactly d, k becomes the most recently used entry, no entry is evicted
\* (the others keep their contents and order), and op's result is returned
\* as Ok(Some(result)).
C11_MutateShrinks ==
    [][(last'.op = "mutate" /\ last'.key \in Present(cache)
        /\ Growth(last'.key, last'.arg) <= 0) =>
        LET k == last'.key
            d == 0 - Growth(last'.key, last'.arg)
        IN /\ last'.ret = OkSome(Op(last'.arg, ValueOf(cache, k)).result)
           /\ SizeOf(cache', k) = SizeOf(cache, k) - d
           /\ cache'.current_size = cache.current_size - d
           /\ peek_mru(cache').ret =
                 SomePair(k, Op(last'.arg, ValueOf(cache, k)).value)
           /\ KeysLruToMru(cache') = UseOrder(KeysLruToMru(cache), k)
           /\ Others(cache', k) = Others(cache, k)
           /\ last'.evicted = <<>>
           /\ len(cache') = len(cache)
           /\ cache'.max_size = cache.max_size
    ]_vars

\* a mutate that shrank the value of one of several entries
C11_Witness ==
    /\ last.op = "mutate"
    /\ last.arg < 0
    /\ last.ret.kind = "Ok(Some)"
    /\ last.evicted = <<>>
    /\ len(cache) >= 2
    /\ peek_mru(cache).ret.key = last.key

\* C12: after set_max_size(m), max_size is m and current_size is at most m;
\* when the previous current_size was at most m nothing else changes and no
\* entry is evicted; otherwise the evicted entries are a prefix of the
\* previous order from least to most recently used, and the surviving
\* entries are the remaining suffix of that order, contents and relative
\* order unchanged.
C12_SetMaxSize ==
    [][last'.op = "set_max_size" =>
        LET m == last'.arg
            old == Contents(cache)
            ev == last'.evicted
        IN /\ cache'.max_size = m
           /\ cache'.current_size <= m
           /\ cache.current_size <= m =>
                 /\ cache' = [cache EXCEPT !.max_size = m]
                 /\ ev = <<>>
           /\ cache.current_size > m =>
                 /\ ev # <<>>
                 /\ IsPrefix(ev, KeysLruToMru(cache))
                 /\ Range(ev) = Present(cache) \ Present(cache')
                 /\ Contents(cache') = SubSeq(old, Len(ev) + 1, Len(old))
                 /\ cache'.current_size =
                       cache.current_size - SumOfKeys(cache, ev)
    ]_vars

\* a set_max_size that evicted some of the entries and spared others
C12_Witness ==
    /\ last.op = "set_max_size"
    /\ last.evicted # <<>>
    /\ len(cache) >= 1
    /\ cache.max_size = last.arg

Reverse(s) == [i \in 1..Len(s) |-> s[Len(s) + 1 - i]]

\* buckets from most to least recently used, walking from the head along next
MruToLru(c) == WalkNext(c, c.head, len(c) + 1)

KeysMruToLru(c) ==
    LET order == MruToLru(c)
    IN [i \in 1..Len(order) |-> c.table[order[i]].key]

\* c1 holds the entries of c: keys, values, cached sizes, the order of
\* recency read in both directions, current_size and max_size
SameEntries(c1, c) ==
    /\ Contents(c1) = Contents(c)
    /\ Present(c1) = Present(c)
    /\ len(c1) = len(c)
    /\ Len(Contents(c1)) = len(c1)
    /\ KeysMruToLru(c1) = Reverse(KeysLruToMru(c))
    /\ c1.current_size = c.current_size
    /\ c1.max_size = c.max_size

ResizeOps == {"reserve", "try_reserve", "shrink_to", "shrink_to_fit"}

\* C13: every table resize (reserve, try_reserve, shrink_to, shrink_to_fit
\* and the growth reallocation inside insert) leaves the live entries, their
\* keys, values and cached sizes, the order from least to most recently
\* used, current_size and max_size unchanged; the growth reallocation of
\* insert, reallocate(capacity * 2 + 1), keeps them from every state an
\* insert starts in, and an insert that reallocated keeps the entries it did
\* not replace or evict in their order.
C13_ResizeKeeps ==
    [][/\ last'.op \in ResizeOps =>
             /\ SameEntries(cache', cache)
             /\ ~last'.panic
       /\ last'.op = "insert" =>
             LET re == reallocate(cache, cache.capacity * 2 + 1)
             IN /\ ~re.panic
                /\ SameEntries(re.c, cache)
                /\ re.c.capacity > cache.capacity
       /\ (last'.op = "insert" /\ last'.reallocs > 0) =>
             LET o == Others(cache, last'.key)
                 n == Others(cache', last'.key)
             IN /\ Len(n) <= Len(o)
                /\ n = SubSeq(o, Len(o) - Len(n) + 1, Len(o))
                /\ cache'.max_size = cache.max_size
    ]_vars

\* a resize that rebuilt a table of several entries
C13_Witness ==
    /\ last.op \in ResizeOps
    /\ last.reallocs = 1
    /\ len(cache) >= 2
    /\ last.ret.kind \in {"unit", "Ok"}

\* C14: when the resize step inside try_reserve fails, try_reserve returns
\* the error and the cache is as it was: every entry is back in the table
\* and in the recency list in its original order, and len, capacity,
\* current_size and max_size are those before the call.
C14_TryReserveFails ==
    [][(last'.op = "try_reserve" /\ last'.ret.kind = "Err") =>
        /\ SameEntries(cache', cache)
        /\ \A k \in Present(cache) :
              peek(cache', k).ret = peek(cache, k).ret
        /\ peek_lru(cache').ret = peek_lru(cache).ret
        /\ peek_mru(cache').ret = peek_mru(cache).ret
        /\ cache'.capacity = cache.capacity
        /\ uses' = uses
        /\ ~last'.panic
    ]_vars

\* a failed try_reserve on a cache of several entries
C14_Witness ==
    /\ last.op = "try_reserve"
    /\ last.ret.kind = "Err"
    /\ last.reallocs = 1
    /\ len(cache) >= 2

\* C15: try_reserve(additional) returns an error whenever the requested
\* capacity len() + additional overflows the machine word, and it never
\* returns Ok(()) unless afterwards capacity() >= len() + additional.
C15_TryReserveOverflow ==
    [][last'.op = "try_reserve" =>
        /\ len(cache) + last'.arg > UsizeMax => last'.ret.kind = "Err"
        /\ last'.ret.kind = "Ok" =>
              cache'.capacity >= len(cache') + last'.arg
    ]_vars

\* the key a removal is aimed at in c, NoVal when it has no target
Target(c, op, key) ==
    IF op \in {"remove", "remove_entry"}
    THEN IF key \in Present(c) THEN key ELSE NoVal
    ELSE IF len(c) = 0 THEN NoVal
    ELSE IF op = "remove_lru" THEN KeysLruToMru(c)[1]
    ELSE KeysLruToMru(c)[len(c)]

RemovalOps == {"remove", "remove_entry", "remove_lru", "remove_mru"}

\* C16: a removal removes exactly its target: remove(k) and remove_entry(k)
\* on a present key, remove_lru() (the tail) and remove_mru() (the head)
\* return the target's value, or its key and value, delete it from the table
\* and the recency list, lower current_size by the target's cached size and
\* len by 1, and leave the other entries and their order unchanged;
\* remove_lru and remove_mru return None on an empty cache and change
\* nothing.
C16_RemovalExact ==
    [][last'.op \in RemovalOps =>
        LET t == Target(cache, last'.op, last'.key)
        IN IF t # NoVal
           THEN /\ last'.ret = IF last'.op = "remove"
                               THEN SomeValue(ValueOf(cache, t))
                               ELSE SomePair(t, ValueOf(cache, t))
                /\ t \notin Present(cache')
                /\ Present(cache') = Present(cache) \ {t}
                /\ Contents(cache') = Others(cache, t)
                /\ KeysMruToLru(cache')
                      = Reverse(RemoveKey(KeysLruToMru(cache), t))
                /\ cache'.current_size = cache.current_size - SizeOf(cache, t)
                /\ len(cache') = len(cache) - 1
                /\ cache'.max_size = cache.max_size
           ELSE last'.op \in {"remove_lru", "remove_mru"} =>
                   /\ last'.ret = None
                   /\ cache' = cache
    ]_vars

\* a remove_mru that took the head from a cache of three entries
C16_Witness ==
    /\ last.op = "remove_mru"
    /\ last.ret.kind = "Some"
    /\ last.ret.key \notin Present(cache)
    /\ len(cache) = 2

KeyedOps == {"remove", "remove_entry", "get", "touch", "mutate"}

\* C17: every keyed operation on an absent key reports absence and leaves
\* the cache unchanged: remove(k), remove_entry(k) and get(k) return None,
\* touch(k) does nothing, mutate(k, op) returns Ok(None) without calling
\* op; entries, recency order, current_size and max_size are as before.
C17_AbsentKey ==
    [][(last'.op \in KeyedOps /\ last'.key \notin Present(cache)) =>
        /\ last'.ret = IF last'.op = "mutate" THEN OkNone
                       ELSE IF last'.op = "touch" THEN Unit
                       ELSE None
        /\ cache' = cache
        /\ uses' = uses
        /\ last'.calls = 0
        /\ last'.evicted = <<>>
    ]_vars

\* a touch of an absent key on a cache of several entries
C17_Witness ==
    /\ last.op = "touch"
    /\ last.key \notin Present(cache)
    /\ len(cache) >= 2

\* C18: get_lru() on a non-empty cache returns the key and value of the
\* entry that was the tail when it was called and makes that entry the
\* head; the relative order of the other entries, all contents,
\* current_size, len and max_size are unchanged, so two successive calls on
\* two entries return the one, then the other; on an empty cache it returns
\* None and changes nothing.
C18_GetLru ==
    [][last'.op = "get_lru" =>
        IF len(cache) > 0
        THEN LET old == KeysLruToMru(cache)
                 k == old[1]
             IN /\ last'.ret = SomePair(k, ValueOf(cache, k))
                /\ peek_lru(cache).ret = last'.ret
                /\ peek_mru(cache').ret = last'.ret
                /\ KeysLruToMru(cache') = UseOrder(old, k)
                /\ Others(cache', k) = Others(cache, k)
                /\ Range(Contents(cache')) = Range(Contents(cache))
                /\ cache'.current_size = cache.current_size
                /\ len(cache') = len(cache)
                /\ cache'.max_size = cache.max_size
                /\ (last.op = "get_lru" /\ len(cache) = 2) =>
                      /\ last'.ret.key # last.ret.key
                      /\ KeysLruToMru(cache')
                            = <<last.ret.key, last'.ret.key>>
        ELSE /\ last'.ret = None
             /\ cache' = cache
    ]_vars

\* a get_lru that promoted the tail of a cache of several entries
C18_Witness ==
    /\ last.op = "get_lru"
    /\ last.ret.kind = "Some"
    /\ len(cache) >= 2
    /\ peek_mru(cache).ret.key = last.ret.key
    /\ peek_lru(cache).ret.key # last.ret.key

\* C19: touch(k) on a present key moves k's entry to the head and does
\* nothing else: values, sizes, current_size, len, max_size and the relative
\* order of the other entries are unchanged; when k is already the most
\* recently used entry, also as the only entry, the cache is exactly as it
\* was.
C19_Touch ==
    [][(last'.op = "touch" /\ last'.key \in Present(cache)) =>
        LET k == last'.key
            old == KeysLruToMru(cache)
        IN /\ last'.ret = Unit
           /\ KeysLruToMru(cache') = UseOrder(old, k)
           /\ peek_mru(cache').ret = SomePair(k, ValueOf(cache, k))
           /\ Others(cache', k) = Others(cache, k)
           /\ Range(Contents(cache')) = Range(Contents(cache))
           /\ KeysMruToLru(cache') = Reverse(UseOrder(old, k))
           /\ cache'.current_size = cache.current_size
           /\ len(cache') = len(cache)
           /\ cache'.max_size = cache.max_size
           /\ old[Len(old)] = k => cache' = cache
    ]_vars

\* a touch that made a key the head of a cache of three entries
C19_Witness ==
    /\ last.op = "touch"
    /\ last.ret.kind = "unit"
    /\ last.key \in Present(cache)
    /\ len(cache) = 3
    /\ peek_mru(cache).ret.key = last.key

\* C20: after clear(), from any state, len and current_size are 0, head and
\* tail are absent, every key is reported absent and max_size is unchanged;
\* the cache is usable again: a fitting insert that follows succeeds and its
\* entry is the only one.
C20_Clear ==
    [][/\ last'.op = "clear" =>
             /\ last'.ret = Unit
             /\ len(cache') = 0
             /\ cache'.current_size = 0
             /\ cache'.head = NULL /\ cache'.tail = NULL
             /\ peek_lru(cache').ret = None /\ peek_mru(cache').ret = None
             /\ \A k \in Keys :
                   /\ contains(cache', k).ret.kind = "false"
                   /\ peek(cache', k).ret = None
                   /\ get(cache', k).ret = None
             /\ cache'.max_size = cache.max_size
             /\ uses' = <<>>
             /\ \A k \in Keys : \A v \in Values :
                   EntryNew(k, v).size <= cache'.max_size =>
                      LET r == insert(cache', k, v)
                      IN /\ r.ret = OkNone
                         /\ ~r.hang /\ ~r.panic
                         /\ Contents(r.c) =
                               <<[key |-> k, value |-> v,
                                  size |-> EntryNew(k, v).size]>>
                         /\ r.c.current_size = EntryNew(k, v).size
       /\ (last.op = "clear" /\ last'.op = "insert"
           /\ EntryNew(last'.key, last'.arg).size <= cache.max_size) =>
             /\ last'.ret = OkNone
             /\ KeysLruToMru(cache') = <<last'.key>>
             /\ peek(cache', last'.key).ret = SomeValue(last'.arg)
             /\ cache'.current_size = EntryNew(last'.key, last'.arg).size
    ]_vars

\* a cleared cache that has room for several entries
C20_Witness ==
    /\ last.op = "clear"
    /\ len(cache) = 0
    /\ cache.current_size = 0
    /\ cache.capacity > 0
    /\ cache.max_size >= 2 * MetaSize

\* C21: clone() of a cache in any reachable state yields a cache with the
\* same max_size, the same current_size and the same (key, value, size)
\* entries in the same order from least to most recently used; the clone's
\* head has no predecessor and its tail no successor, and cloning leaves
\* the original as it was.
C21_CloneEqual ==
    last.op = "clone" =>
        LET copy == last.copy
        IN /\ ~last.panic
           /\ copy.max_size = cache.max_size
           /\ copy.current_size = cache.current_size
           /\ copy.capacity = cache.capacity
           /\ Contents(copy) = Contents(cache)
           /\ len(copy) = len(cache)
           /\ Len(Contents(copy)) = len(copy)
           /\ KeysMruToLru(copy) = Reverse(KeysLruToMru(cache))
           /\ (copy.head = NULL) = (len(cache) = 0)
           /\ (copy.tail = NULL) = (len(cache) = 0)
           /\ copy.head # NULL =>
                 /\ copy.table[copy.head].prev = NULL
                 /\ copy.table[copy.tail].next = NULL
                 /\ copy.table[copy.head].key = peek_mru(cache).ret.key
                 /\ copy.table[copy.tail].key = peek_lru(cache).ret.key

\* a clone of a cache of three entries
C21_Witness ==
    /\ last.op = "clone"
    /\ len(cache) = 3
    /\ len(last.copy) = 3
    /\ KeysLruToMru(last.copy) = <<2, 3, 1>>

\* what an iterator of the given kind is to yield for the key
Expected(c, kind, key) ==
    IF kind = "keys" THEN Ret("Some", key, NoVal, NoVal, NoVal)
    ELSE IF kind = "values" THEN SomeValue(ValueOf(c, key))
    ELSE SomePair(key, ValueOf(c, key))

\* the position, from the least recently used entry, of the entry that call
\* i of a run over n entries is to yield
Position(ys, i, n) ==
    IF ys[i].front
    THEN 1 + Cardinality({j \in 1..(i - 1) : ys[j].front})
    ELSE n - Cardinality({j \in 1..(i - 1) : ~ys[j].front})

\* C23: iter(), keys() and values() yield the entries from least to most
\* recently used and do not change the cache; when items are taken from
\* both ends in any interleaving of next and next_back, every entry is
\* yielded exactly once, exactly len() items are yielded, and afterwards
\* next and next_back keep returning None.
C23_Iterators ==
    [][last'.op \in IterKinds =>
        LET ys == last'.yielded
            n == len(cache)
        IN /\ cache' = cache
           /\ uses' = uses
           /\ Len(uses) = n
           /\ Len(ys) = n + 4
           /\ \A i \in 1..n :
                 ys[i].item =
                    Expected(cache, last'.op, uses[Position(ys, i, n)])
           /\ {Position(ys, i, n) : i \in 1..n} = 1..n
           /\ \A i \in (n + 1)..(n + 4) : ys[i].item = None
           /\ (\A i \in 1..n : ys[i].front) =>
                 /\ Len(KeysLruToMru(cache)) = n
                 /\ \A i \in 1..n :
                       ys[i].item = Expected(cache, last'.op,
                                             KeysLruToMru(cache)[i])
    ]_vars

\* an iter() over three entries taken from the front, the back and the
\* front again
C23_Witness ==
    /\ last.op = "iter"
    /\ len(cache) = 3
    /\ last.yielded[1].front /\ ~last.yielded[2].front
    /\ last.yielded[3].front
    /\ last.yielded[3].item.kind = "Some"
    /\ last.yielded[4].item = None

\* C24: a drain run to completion yields exactly the (key, value) sequence
\* that iter() taken to the end from the front yields immediately before
\* it, from least to most recently used, and afterwards the cache is empty:
\* len and current_size are 0 and head and tail are absent.
C24_Drain ==
    [][last'.op = "drain" =>
        LET ys == last'.yielded
            n == len(cache)
            before == iter_run(cache, "iter", IterNew(cache),
                               [i \in 1..n |-> TRUE])
        IN /\ Len(ys) = n
           /\ ys = [i \in 1..n |-> before[i].item]
           /\ ys = [i \in 1..n |-> SomePair(uses[i], ValueOf(cache, uses[i]))]
           /\ len(cache') = 0
           /\ cache'.current_size = 0
           /\ cache'.head = NULL /\ cache'.tail = NULL
           /\ peek_lru(cache').ret = None
           /\ \A k \in Keys : contains(cache', k).ret.kind = "false"
           /\ cache'.max_size = cache.max_size
    ]_vars

\* a drain that yielded three entries
C24_Witness ==
    /\ last.op = "drain"
    /\ Len(last.yielded) = 3
    /\ last.yielded[1].key = 2
    /\ len(cache) = 0

\* the third insert of the scenario: C is inserted into the cache that
\* holds A and B, inserted in that order into an empty cache
ThirdInsert ==
    /\ cache.max_size = ScenarioMaxSize
    /\ Contents(cache) =
          <<[key |-> ScenarioA[1], value |-> ScenarioA[2], size |-> 80],
            [key |-> ScenarioB[1], value |-> ScenarioB[2], size |-> 80]>>
    /\ uses = <<ScenarioA[1], ScenarioB[1]>>
    /\ last.op = "insert" /\ last.key = ScenarioB[1]
    /\ last'.op = "insert"
    /\ last'.key = ScenarioC[1] /\ last'.arg = ScenarioC[2]
    /\ EntryNew(last'.key, last'.arg).size = 80

\* C25 as stated: with max_size the combined size of two entries of 100
\* bytes and one of 80 bytes, inserting three entries of 80 bytes A, B, C
\* in that order into an empty cache leaves only B and C (A evicted), with
\* current_size <= max_size and the iteration yielding [B, C].
C25_Stated ==
    [][ThirdInsert =>
        /\ KeysLruToMru(cache') = <<ScenarioB[1], ScenarioC[1]>>
        /\ last'.evicted = <<ScenarioA[1]>>
        /\ cache'.current_size <= cache'.max_size
    ]_vars

\* C25 amended: the three entries of 80 bytes take 240 of the 280 bytes, so
\* inserting A, B, C in that order into an empty cache evicts nothing and
\* leaves A, B and C, with current_size = 240 <= max_size and the iteration
\* yielding [A, B, C].
C25_ScenarioKeepsAll ==
    [][ThirdInsert =>
        /\ last'.ret = OkNone
        /\ KeysLruToMru(cache') =
              <<ScenarioA[1], ScenarioB[1], ScenarioC[1]>>
        /\ collect(cache', "keys", IterNew(cache'), len(cache')) =
              <<Ret("Some", ScenarioA[1], NoVal, NoVal, NoVal),
                Ret("Some", ScenarioB[1], NoVal, NoVal, NoVal),
                Ret("Some", ScenarioC[1], NoVal, NoVal, NoVal)>>
        /\ last'.evicted = <<>>
        /\ cache'.current_size = 3 * 80
        /\ cache'.current_size <= cache'.max_size
    ]_vars

\* the cache after A, B and C were inserted in that order
C25_Witness ==
    /\ cache.max_size = ScenarioMaxSize
    /\ last.op = "insert" /\ last.key = ScenarioC[1]
    /\ uses = <<ScenarioA[1], ScenarioB[1], ScenarioC[1]>>
    /\ \A i \in 1..Len(Contents(cache)) : Contents(cache)[i].size = 80
    /\ len(cache) = 3

\* C26: index bijection: after every public operation the set of keys
\* stored in the table equals the set of keys reached by walking the list
\* from the head to the tail and from the tail to the head, and each key
\* occurs exactly once in the table and once in the list.
C26_IndexBijection ==
    LET forward == KeysMruToLru(cache)
        backward == KeysLruToMru(cache)
    IN /\ Range(forward) = Present(cache)
       /\ Range(backward) = Present(cache)
       /\ Len(forward) = len(cache)
       /\ Len(backward) = len(cache)
       /\ Cardinality(Present(cache)) = len(cache)
       /\ Cardinality(Range(MruToLru(cache))) = len(cache)
       /\ Range(MruToLru(cache)) = DOMAIN cache.table
       /\ Range(LruToMru(cache)) = DOMAIN cache.table
       /\ forward = Reverse(backward)

\* a removal that left two of three entries
C26_Witness ==
    /\ last.op = "remove_entry"
    /\ last.ret.kind = "Some"
    /\ len(cache) = 2
    /\ KeysLruToMru(cache) = <<3, 1>>

\* the recency list of c is well formed
WellFormed(c) ==
    /\ (c.head = NULL) = (c.tail = NULL)
    /\ c.head # NULL =>
          /\ c.head \in DOMAIN c.table /\ c.tail \in DOMAIN c.table
          /\ c.table[c.head].prev = NULL
          /\ c.table[c.tail].next = NULL
    /\ \A s \in DOMAIN c.table :
          /\ s # c.head =>
                /\ c.table[s].prev \in DOMAIN c.table
                /\ c.table[c.table[s].prev].next = s
          /\ s # c.tail =>
                /\ c.table[s].next \in DOMAIN c.table
                /\ c.table[c.table[s].next].prev = s
    /\ Len(MruToLru(c)) = len(c)
    /\ Len(LruToMru(c)) = len(c)
    /\ Cardinality(Range(MruToLru(c))) = len(c)
    /\ Cardinality(Range(LruToMru(c))) = len(c)

\* C27: list well-formedness: after every public operation the recency
\* list has no cycles, the head's prev is null, the tail's next is null, for
\* every entry E other than the head the entry E.prev has its next equal to
\* E, and for every entry E other than the tail the entry E.next has its
\* prev equal to E.
C27_WellFormed == WellFormed(cache)

\* three entries after a reallocation moved them to a new table
C27_Witness ==
    /\ last.op = "reserve"
    /\ last.reallocs = 1
    /\ len(cache) = 3
    /\ cache.table[cache.tail].prev # NULL

\* C28: emptiness coherence: after every public operation the four
\* conditions len() == 0, head absent, tail absent and current_size == 0
\* are all true or all false.
C28_EmptinessCoherent ==
    /\ (len(cache) = 0) = (cache.head = NULL)
    /\ (len(cache) = 0) = (cache.tail = NULL)
    /\ (len(cache) = 0) = (cache.current_size = 0)
    /\ (len(cache) = 0) = (peek_lru(cache).ret = None)
    /\ (len(cache) = 0) = (peek_mru(cache).ret = None)

\* a cache emptied by the removal of its last entry
C28_Witness ==
    /\ last.op = "remove_lru"
    /\ last.ret.kind = "Some"
    /\ len(cache) = 0
    /\ cache.current_size = 0
    /\ cache.capacity > 0

\* C29: entry-size invariant: for every live entry, after any sequence of
\* operations including mutate calls that change the value's size, the
\* cached entry size equals the key's estimated size plus the current
\* value's estimated size plus the per-entry metadata constant, so it is at
\* least that positive constant.
C29_EntrySize ==
    \A s \in DOMAIN cache.table :
        /\ cache.table[s].size =
              key_mem_size(cache.table[s].key)
                 + value_mem_size(cache.table[s].value) + MetaSize
        /\ cache.table[s].size = EntryNew(cache.table[s].key,
                                          cache.table[s].value).size
        /\ cache.table[s].size >= MetaSize
        /\ MetaSize > 0

\* a mutate that emptied the value of one of several entries
C29_Witness ==
    /\ last.op = "mutate"
    /\ last.arg < 0
    /\ last.ret.kind = "Ok(Some)"
    /\ last.key \in Present(cache)
    /\ ValueOf(cache, last.key) = 0
    /\ SizeOf(cache, last.key) = MetaSize + key_mem_size(last.key)
    /\ len(cache) >= 2

\* C30: eviction is minimal: insert of an entry of size s evicts from the
\* tail only while current_size > max_size - s and stops at the first point
\* where current_size <= max_size - s; no entry is evicted when
\* current_size, after the old entry of the key is removed, plus s is at
\* most max_size, and the last entry evicted was needed for the new entry
\* to fit.
C30_MinimalEviction ==
    [][(last'.op = "insert"
        /\ EntryNew(last'.key, last'.arg).size <= cache.max_size) =>
        LET k == last'.key
            s == EntryNew(last'.key, last'.arg).size
            base == cache.current_size
                       - (IF k \in Present(cache) THEN SizeOf(cache, k)
                          ELSE 0)
            others == RemoveKey(KeysLruToMru(cache), k)
            ev == last'.evicted
            left(n) == base - SumOfKeys(cache, SubSeq(ev, 1, n))
        IN /\ IsPrefix(ev, others)
           /\ Range(ev) = Present(cache) \ Present(cache')
           /\ base + s <= cache.max_size => ev = <<>>
           /\ \A n \in 0..(Len(ev) - 1) : left(n) > cache.max_size - s
           /\ left(Len(ev)) <= cache.max_size - s
           /\ cache'.current_size = left(Len(ev)) + s
           /\ KeysLruToMru(cache') =
                 Append(SubSeq(others, Len(ev) + 1, Len(others)), k)
    ]_vars

\* an insert that evicted one entry, which would not fit any more, and
\* spared the entry behind it
C30_Witness ==
    /\ last.op = "insert"
    /\ last.ret.kind = "Ok(None)"
    /\ Len(last.evicted) = 1
    /\ len(cache) = 2
    /\ cache.current_size + MetaSize > cache.max_size

\* C22: a clone and its original are independent.  A call of insert, get,
\* touch, mutate, remove, clear, set_max_size, reserve or shrink_to_fit on
\* one of them leaves the other's entries, recency order, current_size and
\* max_size as they were, and neither cache ever holds a list link that
\* refers to an entry of the other: every link of a cache is null or one of
\* its own entries.
C22_CloneIndependent ==
    [][/\ last'.op = "clone"
          => /\ cache' = cache
             /\ ForeignLinks(last'.copy) = {}
             /\ WellFormed(last'.copy)
       /\ last'.op = "on_original" /\ last.copy # NoCopy
          => /\ Contents(last'.copy) = Contents(last.copy)
             /\ MruToLru(last'.copy) = MruToLru(last.copy)
             /\ last'.copy.current_size = last.copy.current_size
             /\ last'.copy.max_size = last.copy.max_size
             /\ ForeignLinks(cache') = {}
             /\ WellFormed(cache')
             /\ WellFormed(last'.copy)
       /\ last'.op = "on_clone"
          => /\ Contents(cache') = Contents(cache)
             /\ MruToLru(cache') = MruToLru(cache)
             /\ cache'.current_size = cache.current_size
             /\ cache'.max_size = cache.max_size
             /\ ForeignLinks(last'.copy) = {}
             /\ WellFormed(last'.copy)
             /\ WellFormed(cache')]_vars

C22_Witness ==
    /\ last.op = "on_clone"
    /\ len(cache) = 2
    /\ len(last.copy) = 2
    /\ KeysLruToMru(last.copy) = Reverse(KeysLruToMru(cache))
    /\ last.copy.max_size # cache.max_size
    /\ last.copy.current_size # cache.current_size

\* C31: every call of insert, mutate and set_max_size terminates.  The
\* eviction loop never runs with an empty recency list while current_size
\* still exceeds the target: every entry has a positive size, so each
\* iteration removes one entry and lowers current_size, and the loop makes
\* no more iterations than the cache had entries.  The retry loop of insert
\* reallocates at most once before the table insertion succeeds, and the
\* reallocation leaves room for the entry.
C31_Terminates ==
    [][last'.op \in {"insert", "mutate", "set_max_size"} =>
          /\ ~last'.hang
          /\ last'.reallocs <= 1
          /\ Len(last'.evicted) <= len(cache)
          /\ \A s \in DOMAIN cache.table : cache.table[s].size > 0
          /\ last'.op = "set_max_size" =>
                cache'.current_size + Len(last'.evicted) * MetaSize
                   <= cache.current_size
          /\ last'.op = "insert" =>
                LET re == reallocate(cache, cache.capacity * 2 + 1)
                IN len(re.c) < re.c.capacity]_vars

\* an insert that met a full table, reallocated it once and went through
C31_Witness ==
    /\ last.op = "insert"
    /\ last.reallocs = 1
    /\ len(cache) = CapacityFor(1) + 1
    /\ ~last.hang

\* C32: when insert(k, v) replaces an existing entry for k, the old entry's
\* size is debited before eviction is decided.  Replacing a value with one
\* whose entry size is not larger than the old entry's evicts no other
\* entry, whatever k's previous position in the list and however full the
\* cache is: the other entries and their order stay, the old value is
\* returned and current_size changes by the difference of the two sizes.
C32_ReplaceDebitsFirst ==
    [][(/\ last'.op = "insert"
        /\ last'.key \in Present(cache)
        /\ EntryNew(last'.key, last'.arg).size <= SizeOf(cache, last'.key))
       => /\ last'.evicted = <<>>
          /\ last'.ret = OkSome(ValueOf(cache, last'.key))
          /\ Others(cache', last'.key) = Others(cache, last'.key)
          /\ last'.key \in Present(cache')
          /\ ValueOf(cache', last'.key) = last'.arg
          /\ cache'.current_size =
                cache.current_size - SizeOf(cache, last'.key)
                   + EntryNew(last'.key, last'.arg).size]_vars

\* a replacement by a value that is not larger, in a cache of several
\* entries so full that the new entry fits only once the old one is debited
C32_Witness ==
    /\ last.op = "insert"
    /\ last.ret.kind = "Ok(Some)"
    /\ last.ret.value >= last.arg
    /\ last.evicted = <<>>
    /\ len(cache) >= 3
    /\ cache.current_size + EntryNew(last.key, last.arg).size > cache.max_size

\* a - b on usize does not underflow
NoUnderflow(a, b) == a >= b

\* every subtraction current_size -= entry.size that the eviction loop makes
\* from c towards target has a minuend at least its subtrahend
RECURSIVE EvictionSafe(_, _)
EvictionSafe(c, target) ==
    IF c.current_size > target /\ c.tail # NULL
    THEN /\ NoUnderflow(c.current_size, c.table[c.tail].size)
         /\ EvictionSafe(remove_lru(c), target)
    ELSE TRUE

\* the subtractions of insert(key, value) from c
InsertSafe(c, key, value) ==
    LET entry == EntryNew(key, value)
        e == get_mut_from_table(c, key)
        c1 == IF e # NULL THEN remove_ptr(c, e) ELSE c
    IN entry.size <= c.max_size =>
          /\ e # NULL => NoUnderflow(c.current_size, c.table[e].size)
          /\ NoUnderflow(c1.max_size, entry.size)
          /\ EvictionSafe(c1, c1.max_size - entry.size)

\* the subtractions of mutate(key, op(d)) from c
MutateSafe(c, key, d) ==
    LET e == get_mut_from_table(c, key)
        old_value_size == value_mem_size(c.table[e].value)
        new_value_size == value_mem_size(Op(d, c.table[e].value).value)
    IN e # NULL =>
          IF new_value_size > old_value_size
          THEN LET diff == new_value_size - old_value_size
                   c1 == [c EXCEPT !.table[e].size = @ + diff,
                                   !.current_size = @ + diff]
               IN /\ NoUnderflow(new_value_size, old_value_size)
                  /\ IF c1.table[e].size > c.max_size
                     THEN NoUnderflow(c.current_size, c.table[e].size)
                     ELSE EvictionSafe(touch_ptr(c1, e), c.max_size)
          ELSE LET diff == old_value_size - new_value_size
               IN /\ NoUnderflow(old_value_size, new_value_size)
                  /\ NoUnderflow(c.table[e].size, diff)
                  /\ NoUnderflow(c.current_size, diff)

\* C33: no size subtraction underflows in any reachable state.  In every
\* call, max_size - entry.size in insert, current_size -= entry.size in
\* remove_ptr (called by the removals, by the replacement in insert and by
\* every iteration of the eviction loop) and entry.size -= diff and
\* current_size -= diff in the non-expanding branch of mutate have a
\* minuend at least as large as the subtrahend.
C33_NoUnderflow ==
    [][/\ last'.op = "insert" => InsertSafe(cache, last'.key, last'.arg)
       /\ last'.op = "mutate" => MutateSafe(cache, last'.key, last'.arg)
       /\ last'.op = "set_max_size" => EvictionSafe(cache, last'.arg)
       /\ last'.op \in RemovalOps =>
             LET k == Target(cache, last'.op, last'.key)
             IN k # NoVal
                   => NoUnderflow(cache.current_size, SizeOf(cache, k))
       /\ cache'.current_size >= 0
       /\ \A s \in DOMAIN cache'.table : cache'.table[s].size >= MetaSize
      ]_vars

\* a mutate that shrank the largest value to nothing while it was the only
\* entry, so that the subtrahend is as close to the minuend as it gets
C33_Witness ==
    /\ last.op = "mutate"
    /\ last.arg = 0 - MaxValue
    /\ last.ret.kind = "Ok(Some)"
    /\ len(cache) = 1
    /\ cache.current_size = MetaSize + last.key

\* the entries of c that reallocate_with and clone re-insert have distinct
\* keys and are all the entries of the table
DistinctSalvage(c) ==
    LET entries == Salvage(c)
    IN /\ Len(entries) = len(c)
       /\ \A i, j \in 1..Len(entries) :
             i # j => entries[i].key # entries[j].key

\* C34: the panic in insert_untracked is unreachable.  Whenever
\* reallocate_with (after a successful or failed reserve or try_reserve,
\* after shrink_to or shrink_to_fit, or for the growth of insert) or clone
\* re-inserts entries, the table has room for every salvaged or cloned entry
\* without growing and no two re-inserted entries share a key, so every
\* re-insertion succeeds and the rebuilt table holds as many entries as
\* before.
C34_NoPanic ==
    [][/\ ~last'.panic
       /\ last'.op \in ResizeOps \cup {"insert", "clone"} =>
             DistinctSalvage(cache)
       /\ (last'.op \in ResizeOps /\ last'.reallocs > 0) =>
             /\ len(cache) <= cache'.capacity
             /\ len(cache') = len(cache)
       /\ last'.op = "clone" =>
             /\ len(cache) <= last'.copy.capacity
             /\ len(last'.copy) = len(cache)
       /\ last'.op = "insert" =>
             LET re == reallocate(cache, cache.capacity * 2 + 1)
             IN ~re.panic /\ len(re.c) = len(cache)]_vars

\* a shrink_to_fit that rebuilt the table so that the re-inserted entries
\* fill it to the last slot
C34_Witness ==
    /\ last.op = "shrink_to_fit"
    /\ last.reallocs = 1
    /\ len(cache) = cache.capacity
    /\ len(cache) >= 2
    /\ ~last.panic

====
